---- MODULE Spec2Model ----
(***************************************************************************)
(* Model of the Sokin daily news analyzer (src/sokin_news_analyzer.py):    *)
(* the state file of processed article hashes, the source scheduler, the   *)
(* per-source scraper and the daily run that analyses and publishes.       *)
(*                                                                         *)
(* Text is modelled as a sequence of one-character strings, so that        *)
(* prefix, substring and concatenation are computed as the code does.      *)
(***************************************************************************)
EXTENDS Integers, Sequences, FiniteSets, TLC

VARIABLES
    file,          \* content of processed_articles.json
    file0,         \* the content the run (or the harness) started from
    last,          \* the last store operation and what it returned
    sched,         \* scheduler harness: the inputs and the answer
    sc,            \* scraper harness: the inputs and the two results
    weekday,       \* datetime.now().weekday() of the run
    pc,            \* position of run_daily_analysis
    src_idx,       \* index of the next source of target_sources
    all_articles,  \* run_daily_analysis: all_articles
    art_idx,       \* index of the next article to analyse
    all_analyses,  \* run_daily_analysis: all_analyses
    outcomes,      \* how the analysis of each article so far ended
    outbox,        \* the posts made to the webhooks, with their outcome
    config,        \* which settings the environment gives the analyzer
    net,           \* the kinds of network request the run has issued
    fetch,         \* one call of scrape_article_content_with_retry
    procs,         \* two overlapping calls of save_processed_article
    hello          \* one execution of hello_world_teams.py

vars == <<file, file0, last, sched, sc, weekday, pc, src_idx, all_articles, art_idx,
          all_analyses, outcomes, outbox, config, net, fetch, procs, hello>>

----------------------------------------------------------------------------
(* Bounds of the model *)

\* longest page, in links
MaxLinks == 2
\* largest max_articles the scraper harness is called with
MaxCap == 2
\* selectors in a site's selector list
NumSelectors == 2
\* most hashes listed in the state file at the start
MaxInitSeen == 1
\* largest max_retries the retry harness is called with
MaxRetries == 3

----------------------------------------------------------------------------
(* Text helpers: str.startswith, the `in` operator, str.rstrip, str.lower *)

StartsWith(s, p) == Len(s) >= Len(p) /\ SubSeq(s, 1, Len(p)) = p

Contains(s, p) ==
    \E i \in 1..(Len(s) - Len(p) + 1) : \A j \in 1..Len(p) : s[i + j - 1] = p[j]

RECURSIVE RStrip(_, _)
RStrip(s, c) ==
    IF s # <<>> /\ s[Len(s)] = c THEN RStrip(SubSeq(s, 1, Len(s) - 1), c) ELSE s

LowerChar(c) ==
    CASE c = "A" -> "a" [] c = "B" -> "b" [] c = "C" -> "c" [] c = "D" -> "d"
      [] c = "E" -> "e" [] c = "F" -> "f" [] c = "G" -> "g" [] c = "H" -> "h"
      [] c = "I" -> "i" [] c = "J" -> "j" [] c = "K" -> "k" [] c = "L" -> "l"
      [] c = "M" -> "m" [] c = "N" -> "n" [] c = "O" -> "o" [] c = "P" -> "p"
      [] c = "Q" -> "q" [] c = "R" -> "r" [] c = "S" -> "s" [] c = "T" -> "t"
      [] c = "U" -> "u" [] c = "V" -> "v" [] c = "W" -> "w" [] c = "X" -> "x"
      [] c = "Y" -> "y" [] c = "Z" -> "z" [] OTHER -> c

Lower(s) == [i \in 1..Len(s) |-> LowerChar(s[i])]

\* every listing of the finite set S without repetition: list(a_set)
ListsOf(S) ==
    {l \in [1..Cardinality(S) -> S] : \A i, j \in 1..Cardinality(S) : l[i] = l[j] => i = j}

----------------------------------------------------------------------------
(* Fingerprints *)

\* hashlib.md5(...).hexdigest(): the digest is identified with the text it
\* digests (collisions of the digest are not modelled), tagged so that it is
\* no text a page or a file holds
md5_hexdigest(s) == <<"md5">> \o s

\* content = f"{title}|{url}": the text the digest is taken of
HashContent(title, url) == title \o <<"|">> \o url

\* a fingerprint that also depends on which call computes it
create_article_hash_by_call(title, url) ==
    md5_hexdigest(title \o <<"|">> \o url \o (IF sc.phase = "start" THEN <<>> ELSE <<"+">>))

create_article_hash(title, url) == md5_hexdigest(HashContent(title, url))

----------------------------------------------------------------------------
(* The state file: load_processed_articles, save_processed_article *)

\* File contents. shape says what a reader finds:
\*   missing    no file
\*   empty      a file of zero bytes (opened for writing, nothing written)
\*   truncated  a strict prefix of a JSON document
\*   garbage    bytes that are no JSON
\*   top_list   valid JSON whose top level is no object
\*   no_key     an object without "processed_hashes"
\*   ph_null    an object whose "processed_hashes" is null
\*   ph_string  an object whose "processed_hashes" is a string (items: its characters)
\*   ok         an object whose "processed_hashes" is a list (items: the list)
File(shape, items) == [shape |-> shape, items |-> items]

NoItemShapes == {"missing", "empty", "truncated", "garbage", "top_list", "no_key", "ph_null"}

\* hasattr(self, '_daily_run_marker'): the attribute is assigned nowhere
has_daily_run_marker == FALSE

get_processed_articles_fallback ==
    IF has_daily_run_marker THEN {<<"daily_run_completed">>} ELSE {}

\* the exceptions the handler of load_processed_articles catches
LoadHandlerCatches(exc) == TRUE

\* a load that reads only the first hash listed
LoadBody_first_only(f, read_ok) ==
    [exc |-> "none", value |-> IF f.items = <<>> THEN {} ELSE {f.items[1]}]

\* what the try body of load_processed_articles does: a value, or the exception raised
LoadBody(f, read_ok) ==
    IF f.shape = "missing" THEN [exc |-> "none", value |-> {}]
    ELSE IF ~read_ok THEN [exc |-> "OSError", value |-> {}]
    ELSE IF f.shape \in {"empty", "truncated", "garbage"}
        THEN [exc |-> "JSONDecodeError", value |-> {}]
    ELSE IF f.shape = "top_list" THEN [exc |-> "AttributeError", value |-> {}]
    ELSE IF f.shape = "no_key" THEN [exc |-> "none", value |-> {}]
    ELSE IF f.shape = "ph_null" THEN [exc |-> "TypeError", value |-> {}]
    ELSE [exc |-> "none", value |-> {f.items[i] : i \in 1..Len(f.items)}]

\* load_processed_articles: [value, raised]
load_processed_articles(f, read_ok) ==
    LET body == LoadBody(f, read_ok) IN
    IF body.exc = "none" THEN [value |-> body.value, raised |-> FALSE]
    ELSE IF LoadHandlerCatches(body.exc)
        THEN [value |-> get_processed_articles_fallback, raised |-> FALSE]
    ELSE [value |-> {}, raised |-> TRUE]

\* the seen set a reader of the file gets when reading works
Seen(f) == load_processed_articles(f, TRUE).value

\* how open(file, 'w') followed by json.dump can end
WriteOutcomes == {"ok", "open_fails", "fails_empty", "fails_partial"}

\* the file after save_processed_article(article_hash), json.dump listing
\* the set in the order `listing`
FileAfterSave(f, processed, w, listing) ==
    IF w = "open_fails" THEN f
    ELSE IF w = "fails_empty" THEN File("empty", <<>>)
    ELSE IF w = "fails_partial" THEN File("truncated", <<>>)
    ELSE File("ok", listing)

\* a save that forgets what the file held
ProcessedPlus_forgets(f, read_ok, article_hash) == {article_hash}

\* processed = self.load_processed_articles(); processed.add(article_hash)
ProcessedPlus(f, read_ok, article_hash) ==
    load_processed_articles(f, read_ok).value \cup {article_hash}

\* save_processed_article never raises and returns None whatever happened
save_processed_article(f, article_hash, read_ok, w, listing) ==
    FileAfterSave(f, ProcessedPlus(f, read_ok, article_hash), w, listing)

\* the exceptions the handler of save_processed_article catches
SaveHandlerCatches(exc) == TRUE

\* what the caller of save_processed_article gets to see: [raised, returned]
SaveResult(w) ==
    [raised |-> w # "ok" /\ ~SaveHandlerCatches("OSError"), returned |-> "None"]

----------------------------------------------------------------------------
(* Scheduler *)

MONDAY == 0

should_check_source_today_fail_closed(source_name, source_config, wd) ==
    IF source_config.frequency = "daily" THEN TRUE
    ELSE IF source_config.frequency = "weekly" THEN wd = MONDAY
    ELSE FALSE

should_check_source_today(source_name, source_config, wd) ==
    IF source_config.frequency = "daily" THEN TRUE
    ELSE IF source_config.frequency = "weekly" THEN wd = MONDAY
    ELSE TRUE

----------------------------------------------------------------------------
(* Scraper: scrape_articles_from_source *)

\* default of the parameter max_articles
DefaultMaxArticles == 3
\* a link text shorter than this is no article title
MinTextLen == 10
\* the selector loop stops once it holds max_articles * LinkFactor links
LinkFactor == 3

skip_words ==
    <<<<"h", "o", "m", "e">>,
      <<"a", "b", "o", "u", "t">>,
      <<"c", "o", "n", "t", "a", "c", "t">>,
      <<"p", "r", "i", "v", "a", "c", "y">>,
      <<"t", "e", "r", "m", "s">>,
      <<"s", "u", "b", "s", "c", "r", "i", "b", "e">>,
      <<"l", "o", "g", "i", "n">>,
      <<"r", "e", "g", "i", "s", "t", "e", "r">>>>

nav_words ==
    <<<<"m", "e", "n", "u">>,
      <<"n", "a", "v">>,
      <<"f", "o", "o", "t", "e", "r">>,
      <<"h", "e", "a", "d", "e", "r">>,
      <<"s", "i", "d", "e", "b", "a", "r">>>>

skip_patterns ==
    <<<<"p", "a", "g", "e", "=">>,
      <<"c", "a", "t", "e", "g", "o", "r", "y", "=">>,
      <<"t", "a", "g", "=">>,
      <<"a", "u", "t", "h", "o", "r", "=">>,
      <<"#", "c", "o", "m", "m", "e", "n", "t">>>>

payments_keywords ==
    <<<<"p", "a", "y", "m", "e", "n", "t">>,
      <<"f", "i", "n", "t", "e", "c", "h">>,
      <<"f", "i", "n", "a", "n", "c", "i", "a", "l">>,
      <<"b", "a", "n", "k", "i", "n", "g">>,
      <<"c", "u", "r", "r", "e", "n", "c", "y">>,
      <<"c", "r", "o", "s", "s", "-", "b", "o", "r", "d", "e", "r">>,
      <<"t", "r", "a", "n", "s", "a", "c", "t", "i", "o", "n">>,
      <<"m", "o", "n", "e", "y">>,
      <<"d", "i", "g", "i", "t", "a", "l", " ", "w", "a", "l", "l", "e", "t">>,
      <<"c", "r", "y", "p", "t", "o", "c", "u", "r", "r", "e", "n", "c", "y">>,
      <<"b", "l", "o", "c", "k", "c", "h", "a", "i", "n">>,
      <<"r", "e", "m", "i", "t", "t", "a", "n", "c", "e">>,
      <<"f", "o", "r", "e", "i", "g", "n", " ", "e", "x", "c", "h", "a", "n", "g", "e">>,
      <<"f", "o", "r", "e", "x">>,
      <<"s", "e", "t", "t", "l", "e", "m", "e", "n", "t">>,
      <<"c", "l", "e", "a", "r", "i", "n", "g">>,
      <<"c", "a", "r", "d">>,
      <<"v", "i", "s", "a">>,
      <<"m", "a", "s", "t", "e", "r", "c", "a", "r", "d">>,
      <<"p", "a", "y", "p", "a", "l">>,
      <<"s", "t", "r", "i", "p", "e">>,
      <<"r", "e", "g", "u", "l", "a", "t", "i", "o", "n">>,
      <<"c", "o", "m", "p", "l", "i", "a", "n", "c", "e">>>>

is_payments_related(text) ==
    LET text_lower == Lower(text) IN
    \E i \in DOMAIN payments_keywords : Contains(text_lower, payments_keywords[i])

\* the filter of the selector loop: a link that is likely an article
LikelyArticleLink(link) ==
    /\ link.href # <<>>
    /\ link.text # <<>>
    /\ Len(link.text) >= MinTextLen
    /\ LET text_lower == Lower(link.text) IN
       ~\E i \in DOMAIN skip_words : Contains(text_lower, skip_words[i])
    /\ LET href_lower == Lower(link.href) IN
       ~\E i \in DOMAIN nav_words : Contains(href_lower, nav_words[i])

\* soup.select(selector): the links the selector matches, in document order.
\* link.sels is the set of selectors of the site's list that match the element
Select(page, selector) == SelectSeq(page, LAMBDA l : selector \in l.sels)

\* the selector loop: article_links
RECURSIVE CollectLinks(_, _, _, _)
CollectLinks(page, i, max_articles, article_links) ==
    IF i > NumSelectors THEN article_links
    ELSE LET found == article_links \o SelectSeq(Select(page, i), LikelyArticleLink) IN
         IF Len(found) >= max_articles * LinkFactor THEN found
         ELSE CollectLinks(page, i + 1, max_articles, found)

\* relative to absolute: [ok, url]; a reference that is neither is dropped
AbsoluteUrl(href, source_url) ==
    IF StartsWith(href, <<"/">>)
        THEN [ok |-> TRUE, url |-> RStrip(source_url, "/") \o href]
    ELSE IF ~StartsWith(href, <<"h", "t", "t", "p">>)
        THEN [ok |-> FALSE, url |-> href]
    ELSE [ok |-> TRUE, url |-> href]

\* requests.get of an article URL, retries included: the text, <<>> when none
scrape_article_content_with_retry(url, web) ==
    IF url \in DOMAIN web THEN web[url] ELSE <<>>

\* if article_hash in self.load_processed_articles()
AlreadyProcessed_never(article_hash, f, read_ok) == FALSE

AlreadyProcessed(article_hash, f, read_ok) ==
    article_hash \in load_processed_articles(f, read_ok).value

\* one pass of the body of the link loop: the article appended, or why the
\* link was skipped
LinkOutcome(link, source_name, source_url, f, read_ok, web) ==
    LET title == link.text
        abs == AbsoluteUrl(link.href, source_url)
        href == abs.url
        article_hash == create_article_hash(title, href)
        article_content == scrape_article_content_with_retry(href, web)
        skip(why) == [kind |-> why, article |-> <<>>]
    IN
    IF link.href = <<>> \/ title = <<>> \/ Len(title) < MinTextLen THEN skip("bad_link")
    ELSE IF ~abs.ok THEN skip("bad_url")
    ELSE IF \E i \in DOMAIN skip_patterns : Contains(href, skip_patterns[i])
        THEN skip("bad_url")
    ELSE IF AlreadyProcessed(article_hash, f, read_ok) THEN skip("seen")
    ELSE IF article_content = <<>> THEN skip("no_content")
    ELSE IF ~is_payments_related(title \o <<" ">> \o article_content)
        THEN skip("not_relevant")
    ELSE [kind |-> "article",
          article |-> [title |-> title, url |-> href, content |-> article_content,
                       source |-> source_name, hash_id |-> article_hash]]

\* whether the link loop goes on to the next link
CapReached(processed_count, max_articles) == processed_count >= max_articles

\* processed_count after a pass of the link loop
CountAfter_counts_skipped(processed_count, outcome) == processed_count + 1

CountAfter(processed_count, outcome) ==
    IF outcome.kind = "article" THEN processed_count + 1 ELSE processed_count

\* the link loop over article_links from index k on
RECURSIVE ProcessLinks(_, _, _, _, _, _, _, _, _, _)
ProcessLinks(article_links, k, processed_count, articles, max_articles, source_name, source_url, f, read_ok, web) ==
    IF k > Len(article_links) \/ CapReached(processed_count, max_articles) THEN articles
    ELSE LET o == LinkOutcome(article_links[k], source_name, source_url, f, read_ok, web) IN
         ProcessLinks(article_links, k + 1, CountAfter(processed_count, o),
                      IF o.kind = "article" THEN Append(articles, o.article) ELSE articles,
                      max_articles, source_name, source_url, f, read_ok, web)

\* whether the link loop gets as far as requesting the content of an article
FetchesContent(source_name, source_url, max_articles, page_ok, page, f, read_ok, web) ==
    LET article_links == CollectLinks(page, 1, max_articles, <<>>) IN
    /\ page_ok /\ max_articles > 0
    /\ \E k \in 1..Len(article_links) :
          LinkOutcome(article_links[k], source_name, source_url, f, read_ok, web).kind
              \in {"no_content", "not_relevant", "article"}

\* scrape_articles_from_source: page_ok is whether the page was retrieved
\* (requests.get and raise_for_status did not raise)
scrape_articles_from_source(source_name, source_url, max_articles, page_ok, page, f, read_ok, web) ==
    IF ~page_ok THEN <<>>
    ELSE ProcessLinks(CollectLinks(page, 1, max_articles, <<>>), 1, 0, <<>>,
                      max_articles, source_name, source_url, f, read_ok, web)

----------------------------------------------------------------------------
(* Inputs: the pages, article texts and state files the model draws from *)

SourceUrl == <<"h", "t", "t", "p", ":", "/", "/", "s", "/">>
TitleVisa == <<"V", "i", "s", "a", " ", "w", "i", "n", "s", " ", "E", "U">>
TitleSport == <<"S", "p", "o", "r", "t", "s", " ", "n", "e", "w", "s">>
TitleAbout == <<"A", "b", "o", "u", "t", " ", "V", "i", "s", "a", "!">>
HrefA == <<"/", "a">>
HrefB == <<"/", "b">>
HrefAbsA == <<"h", "t", "t", "p", ":", "/", "/", "s", "/", "a">>
HrefPaged == <<"/", "b", "?", "p", "a", "g", "e", "=", "2">>
ContentCard == <<"b", "a", "n", "k", " ", "c", "a", "r", "d">>
ContentGoal == <<"l", "a", "t", "e", " ", "g", "o", "a", "l">>

Link(text, href, sels) == [text |-> text, href |-> href, sels |-> sels]

\* the <a> elements a page is made of
LinkChoices ==
    {Link(TitleVisa, HrefA, {1, 2}),     \* matched by two selectors
     Link(TitleVisa, HrefAbsA, {2}),     \* the same article by its absolute URL
     Link(TitleSport, HrefB, {1}),       \* relevant only by its content
     Link(TitleSport, HrefPaged, {2}),   \* a pagination URL
     Link(TitleAbout, HrefA, {1})}       \* a navigation text

Pages == UNION {[1..n -> LinkChoices] : n \in 0..MaxLinks}

\* what the articles' URLs return, per path: <<>> is a failed retrieval
WebsOf(source_url) ==
    LET a == RStrip(source_url, "/") \o HrefA
        b == RStrip(source_url, "/") \o HrefB
    IN {[u \in {a, b, HrefAbsA} |-> IF u = b THEN cb ELSE ContentCard] :
            cb \in {<<>>, ContentCard, ContentGoal}}

\* the fingerprints of the articles of the pages
PageHashes ==
    {create_article_hash(TitleVisa, HrefAbsA),
     create_article_hash(TitleSport, RStrip(SourceUrl, "/") \o HrefB)}

OkFiles ==
    {File("ok", l) : l \in UNION {ListsOf(S) :
        S \in {T \in SUBSET PageHashes : Cardinality(T) <= MaxInitSeen}}}

BadFiles ==
    {File(shape, <<>>) : shape \in NoItemShapes}
        \cup {File("ph_string", <<<<"a">>, <<"b">>>>)}

----------------------------------------------------------------------------
(* Values of the variables a specification does not use *)

NoLast == [op |-> "none", arg |-> <<>>, read_ok |-> TRUE, w |-> "ok",
           before |-> File("missing", <<>>), value |-> {}, raised |-> FALSE]
NoSched == [phase |-> "idle", source_name |-> "", frequency |-> "", due |-> FALSE]
NoScrape == [phase |-> "idle", page |-> <<>>, page_ok |-> TRUE, cap |-> 0,
             web |-> <<>>, read1 |-> TRUE,
             first |-> <<>>, k |-> 0, all_saved |-> TRUE, read2 |-> TRUE,
             second |-> <<>>]

NoFetch == [phase |-> "idle", link |-> <<>>, body |-> <<>>, max_retries |-> 0,
            attempt |-> 0, requests |-> 0, failed |-> FALSE, content |-> <<>>]
NoProcs == <<>>
NoHello == [pc |-> "idle", env |-> <<>>, requests |-> 0, status |-> 0, raised |-> "",
            returned |-> "", exit |-> -1]

AllSet == [claude_api_key |-> TRUE, teams_webhook_url |-> TRUE,
           teams_detailed_webhook_url |-> TRUE]

RunIdle ==
    /\ pc = "idle" /\ src_idx = 0 /\ all_articles = <<>> /\ art_idx = 0
    /\ all_analyses = <<>> /\ outcomes = <<>> /\ outbox = <<>> /\ config = AllSet
    /\ net = {}

RunVars == <<pc, src_idx, all_articles, art_idx, all_analyses, outcomes, outbox, config,
             net>>

----------------------------------------------------------------------------
(* The state file on its own: any sequence of loads and saves *)

InitStore ==
    /\ file \in OkFiles \cup BadFiles /\ file0 = file
    /\ last = NoLast /\ sched = NoSched /\ sc = NoScrape /\ weekday = 0 /\ RunIdle
    /\ fetch = NoFetch /\ procs = NoProcs /\ hello = NoHello

\* a call of load_processed_articles
Load ==
    \E read_ok \in BOOLEAN :
        LET r == load_processed_articles(file, read_ok) IN
        /\ last' = [op |-> "load", arg |-> <<>>, read_ok |-> read_ok, w |-> "ok",
                    before |-> file, value |-> r.value, raised |-> r.raised]
        /\ UNCHANGED <<file, sched, sc, file0, fetch, procs, hello, weekday, RunVars>>

\* a call of save_processed_article(article_hash)
Save ==
    \E article_hash \in PageHashes, read_ok \in BOOLEAN, w \in WriteOutcomes :
        \E listing \in ListsOf(ProcessedPlus(file, read_ok, article_hash)) :
            /\ file' = save_processed_article(file, article_hash, read_ok, w, listing)
            /\ last' = [op |-> "save", arg |-> article_hash, read_ok |-> read_ok,
                        w |-> w, before |-> file, value |-> {},
                        raised |-> SaveResult(w).raised]
            /\ UNCHANGED <<sched, sc, file0, fetch, procs, hello, weekday, RunVars>>

NextStore == Load \/ Save

SpecStore == InitStore /\ [][NextStore]_vars

----------------------------------------------------------------------------
(* The scheduler on its own *)

Frequencies == {"daily", "weekly", "monthly", "hourly", "Weekly", ""}
SourceNames == {"PYMNTS", "Finextra", "Payments Journal", "Fintech Brain Food",
                "Fintech Magazine"}
Weekdays == 0..6

InitSched ==
    /\ sched \in [phase : {"ask"}, source_name : SourceNames,
                  frequency : Frequencies, due : {FALSE}]
    /\ weekday \in Weekdays
    /\ file = File("missing", <<>>) /\ file0 = file
    /\ last = NoLast /\ sc = NoScrape /\ RunIdle
    /\ fetch = NoFetch /\ procs = NoProcs /\ hello = NoHello

\* a call of should_check_source_today
CheckSource ==
    /\ sched.phase = "ask"
    /\ sched' = [sched EXCEPT
          !.phase = "answered",
          !.due = should_check_source_today(sched.source_name,
                      [frequency |-> sched.frequency], weekday)]
    /\ UNCHANGED <<file, last, sc, file0, fetch, procs, hello, weekday, RunVars>>

NextSched == CheckSource

SpecSched == InitSched /\ [][NextSched]_vars

----------------------------------------------------------------------------
(* The scraper on its own: one source ingested, its articles enriched and  *)
(* saved as run_daily_analysis does, and the same content ingested again   *)

ScrapeFiles == OkFiles \cup {File("missing", <<>>)}

InitScrape ==
    /\ sc \in [phase : {"start"}, page : Pages, page_ok : {TRUE}, cap : 1..MaxCap,
               web : WebsOf(SourceUrl), read1 : {TRUE},
               first : {<<>>}, k : {0}, all_saved : {TRUE}, read2 : {TRUE},
               second : {<<>>}]
    /\ file \in ScrapeFiles /\ file0 = file
    /\ last = NoLast /\ sched = NoSched /\ weekday = 0 /\ RunIdle
    /\ fetch = NoFetch /\ procs = NoProcs /\ hello = NoHello

\* the first call of scrape_articles_from_source
ScrapeFirst ==
    /\ sc.phase = "start"
    /\ \E page_ok \in BOOLEAN, read_ok \in BOOLEAN :
        sc' = [sc EXCEPT
            !.phase = "enrich", !.page_ok = page_ok, !.read1 = read_ok, !.k = 1,
            !.first = scrape_articles_from_source("S", SourceUrl, sc.cap, page_ok,
                                                  sc.page, file, read_ok, sc.web)]
    /\ UNCHANGED <<file, last, sched, file0, fetch, procs, hello, weekday, RunVars>>

\* the next article is analysed and save_processed_article is called for it;
\* sc.all_saved tells whether every article so far was analysed and saved
\* by a save that could read and write the file
EnrichAndSave ==
    /\ sc.phase = "enrich" /\ sc.k <= Len(sc.first)
    /\ \E read_ok \in BOOLEAN, w \in WriteOutcomes :
        \E listing \in ListsOf(ProcessedPlus(file, read_ok, sc.first[sc.k].hash_id)) :
            /\ file' = save_processed_article(file, sc.first[sc.k].hash_id,
                                               read_ok, w, listing)
            /\ sc' = [sc EXCEPT !.k = sc.k + 1,
                                !.all_saved = sc.all_saved /\ read_ok /\ w = "ok"]
    /\ UNCHANGED <<last, sched, file0, fetch, procs, hello, weekday, RunVars>>

\* the analysis of the next article fails: nothing is saved for it
EnrichFails ==
    /\ sc.phase = "enrich" /\ sc.k <= Len(sc.first)
    /\ sc' = [sc EXCEPT !.k = sc.k + 1, !.all_saved = FALSE]
    /\ UNCHANGED <<file, last, sched, file0, fetch, procs, hello, weekday, RunVars>>

\* the second call, over the same retrieved content
ScrapeSecond ==
    /\ sc.phase = "enrich" /\ sc.k > Len(sc.first)
    /\ \E read_ok \in BOOLEAN :
        sc' = [sc EXCEPT
            !.phase = "done", !.read2 = read_ok,
            !.second = scrape_articles_from_source("S", SourceUrl, sc.cap, sc.page_ok,
                                                   sc.page, file, read_ok, sc.web)]
    /\ UNCHANGED <<file, last, sched, file0, fetch, procs, hello, weekday, RunVars>>

NextScrape == ScrapeFirst \/ EnrichAndSave \/ EnrichFails \/ ScrapeSecond

SpecScrape == InitScrape /\ [][NextScrape]_vars

----------------------------------------------------------------------------
(* Run after run over one source: the page stays the same and the state    *)
(* file stays readable and writable                                        *)

RunsFrame == UNCHANGED <<last, sched, file0, fetch, procs, hello, weekday, RunVars>>

\* what scrape_articles_from_source returns for the page, by the seen set the
\* state file holds (the page is retrieved and the file is read)
ScrapeTable(page, cap, web) ==
    [seen \in SUBSET PageHashes |->
        scrape_articles_from_source("S", SourceUrl, cap, TRUE, page,
            File("ok", CHOOSE l \in ListsOf(seen) : TRUE), TRUE, web)]

\* sc.table holds ScrapeTable of the page for the runs to look up
InitRuns ==
    /\ \E page \in Pages, cap \in 1..MaxCap, web \in WebsOf(SourceUrl) :
          sc = [phase |-> "start", page |-> page, page_ok |-> TRUE, cap |-> cap,
                web |-> web, read1 |-> TRUE, first |-> <<>>, k |-> 0,
                all_saved |-> TRUE, read2 |-> TRUE, second |-> <<>>,
                table |-> ScrapeTable(page, cap, web)]
    /\ file \in ScrapeFiles /\ file0 = file
    /\ last = NoLast /\ sched = NoSched /\ weekday = 0 /\ RunIdle
    /\ fetch = NoFetch /\ procs = NoProcs /\ hello = NoHello

\* a run scrapes the source
RunScrape ==
    /\ sc.phase = "start"
    /\ sc' = [sc EXCEPT !.phase = "enrich", !.k = 1, !.first = sc.table[Seen(file)]]
    /\ UNCHANGED file
    /\ RunsFrame

\* the next article is analysed and saved
RunEnrichAndSave ==
    /\ sc.phase = "enrich" /\ sc.k <= Len(sc.first)
    /\ \E listing \in ListsOf(ProcessedPlus(file, TRUE, sc.first[sc.k].hash_id)) :
          file' = save_processed_article(file, sc.first[sc.k].hash_id, TRUE, "ok", listing)
    /\ sc' = [sc EXCEPT !.k = sc.k + 1]
    /\ RunsFrame

\* the analysis of the next article fails: nothing is saved for it
RunEnrichFails ==
    /\ sc.phase = "enrich" /\ sc.k <= Len(sc.first)
    /\ sc' = [sc EXCEPT !.k = sc.k + 1, !.all_saved = FALSE]
    /\ UNCHANGED file
    /\ RunsFrame

\* the run is over; the next one starts from the state file it left
RunEnds ==
    /\ sc.phase = "enrich" /\ sc.k > Len(sc.first)
    /\ sc' = [sc EXCEPT !.phase = "start", !.k = 0, !.first = <<>>, !.all_saved = TRUE]
    /\ UNCHANGED file
    /\ RunsFrame

NextRuns == RunScrape \/ RunEnrichAndSave \/ RunEnrichFails \/ RunEnds

\* the job is scheduled again and again, and every run goes on to its end
SpecRuns == InitRuns /\ [][NextRuns]_vars /\ WF_vars(NextRuns)

----------------------------------------------------------------------------
(* One call of scrape_article_content_with_retry, attempt by attempt *)

\* for attempt in range(max_retries)
MoreAttempts_one_more(attempt, max_retries) == attempt <= max_retries

MoreAttempts(attempt, max_retries) == attempt < max_retries

\* if attempt == max_retries - 1
LastAttempt(attempt, max_retries) == attempt = max_retries - 1

\* the links whose content the link loop asks for
FetchLinks ==
    {l \in LinkChoices :
        LinkOutcome(l, "S", SourceUrl, File("missing", <<>>), TRUE,
                    [u \in {AbsoluteUrl(l.href, SourceUrl).url} |-> ContentCard]).kind
            = "article"}

\* fetch.body is the text a successful request extracts from the page
InitFetch ==
    /\ fetch \in [phase : {"loop"}, link : FetchLinks,
                  body : {<<>>, ContentCard, ContentGoal}, max_retries : 0..MaxRetries,
                  attempt : {0}, requests : {0}, failed : {FALSE}, content : {<<>>}]
    /\ file = File("missing", <<>>) /\ file0 = file
    /\ last = NoLast /\ sched = NoSched /\ sc = NoScrape /\ weekday = 0 /\ RunIdle
    /\ procs = NoProcs /\ hello = NoHello

FetchFrame == UNCHANGED <<file, file0, last, sched, sc, weekday, RunVars, procs, hello>>

\* requests.get answers and the content is extracted: return content[:4000]
FetchGet ==
    /\ fetch.phase = "loop" /\ MoreAttempts(fetch.attempt, fetch.max_retries)
    /\ fetch' = [fetch EXCEPT !.phase = "returned", !.requests = fetch.requests + 1,
                              !.failed = FALSE, !.content = fetch.body]
    /\ FetchFrame

\* requests.get or raise_for_status raises a RequestException: the next
\* attempt, or "" after the last one
FetchRequestException ==
    /\ fetch.phase = "loop" /\ MoreAttempts(fetch.attempt, fetch.max_retries)
    /\ fetch' = IF LastAttempt(fetch.attempt, fetch.max_retries)
                    THEN [fetch EXCEPT !.phase = "returned",
                                       !.requests = fetch.requests + 1,
                                       !.failed = TRUE, !.content = <<>>]
                 ELSE [fetch EXCEPT !.attempt = fetch.attempt + 1,
                                    !.requests = fetch.requests + 1, !.failed = TRUE]
    /\ FetchFrame

\* the page was received and handling it raises another exception: ""
FetchOtherException ==
    /\ fetch.phase = "loop" /\ MoreAttempts(fetch.attempt, fetch.max_retries)
    /\ fetch' = [fetch EXCEPT !.phase = "returned", !.requests = fetch.requests + 1,
                              !.failed = TRUE, !.content = <<>>]
    /\ FetchFrame

\* the for loop runs out: the final return ""
FetchLoopEnds ==
    /\ fetch.phase = "loop" /\ ~MoreAttempts(fetch.attempt, fetch.max_retries)
    /\ fetch' = [fetch EXCEPT !.phase = "returned", !.content = <<>>]
    /\ FetchFrame

NextFetch == FetchGet \/ FetchRequestException \/ FetchOtherException \/ FetchLoopEnds

\* every step of the loop ends: the request has a timeout, the sleeps are finite
SpecFetch == InitFetch /\ [][NextFetch]_vars /\ WF_vars(NextFetch)

----------------------------------------------------------------------------
(* Two runs overlap: their calls of save_processed_article interleave.     *)
(* A call is three steps: load and add, open for writing, dump.            *)

Savers == {1, 2}

InitOverlap ==
    /\ procs \in [Savers -> [pc : {"load"}, hash : PageHashes, processed : {{}},
                             ok : {TRUE}]]
    /\ file \in ScrapeFiles /\ file0 = file
    /\ last = NoLast /\ sched = NoSched /\ sc = NoScrape /\ weekday = 0 /\ RunIdle
    /\ fetch = NoFetch /\ hello = NoHello

OverlapFrame == UNCHANGED <<file0, last, sched, sc, weekday, RunVars, fetch, hello>>

\* processed = self.load_processed_articles(); processed.add(article_hash)
SaverLoad(p) ==
    /\ procs[p].pc = "load"
    /\ \E read_ok \in BOOLEAN :
          procs' = [procs EXCEPT
              ![p].pc = "open",
              ![p].processed = ProcessedPlus(file, read_ok, procs[p].hash),
              ![p].ok = read_ok \/ file.shape = "missing"]
    /\ UNCHANGED file
    /\ OverlapFrame

\* open(self.processed_articles_file, 'w') truncates the file, or fails
SaverOpen(p) ==
    /\ procs[p].pc = "open"
    /\ \/ /\ file' = File("empty", <<>>)
          /\ procs' = [procs EXCEPT ![p].pc = "dump"]
       \/ /\ UNCHANGED file
          /\ procs' = [procs EXCEPT ![p].pc = "done", ![p].ok = FALSE]
    /\ OverlapFrame

\* the file after a dump of `listing` from the start of the file: bytes that
\* another writer put behind the end of this dump stay where they are
FileAfterDump(f, w, listing) ==
    IF w = "fails_empty" THEN f
    ELSE IF w = "fails_partial" THEN File("truncated", <<>>)
    ELSE IF f.shape = "ok" /\ Len(f.items) > Len(listing) THEN File("garbage", <<>>)
    ELSE File("ok", listing)

\* json.dump(data, f) and the close of the file
SaverDump(p) ==
    /\ procs[p].pc = "dump"
    /\ \E w \in WriteOutcomes \ {"open_fails"} :
        \E listing \in ListsOf(procs[p].processed) :
          /\ file' = FileAfterDump(file, w, listing)
          /\ procs' = [procs EXCEPT ![p].pc = "done",
                                    ![p].ok = procs[p].ok /\ w = "ok"]
    /\ OverlapFrame

NextOverlap == \E p \in Savers : SaverLoad(p) \/ SaverOpen(p) \/ SaverDump(p)

SpecOverlap == InitOverlap /\ [][NextOverlap]_vars

----------------------------------------------------------------------------
(* The natural key on its own: two links go through the body of the link
   loop one after the other, the article of the first is saved in between *)

\* link texts and references a page can carry: a title and a reference may
\* hold the character the digested text is joined with
KeyTitles == {TitleVisa, TitleVisa \o <<"|">> \o HrefAbsA, TitleAbout}
KeyHrefs ==
    LET HrefAbsB == RStrip(SourceUrl, "/") \o HrefB IN
    {HrefA, HrefB, HrefAbsA, HrefAbsA \o <<"|">> \o HrefAbsB,
     HrefA \o <<"|">> \o HrefAbsB, HrefPaged}
KeyLinks == {Link(t, h, {1}) : t \in KeyTitles, h \in KeyHrefs}

\* every article URL returns a text about payments
KeyWeb == [u \in {AbsoluteUrl(h, SourceUrl).url : h \in KeyHrefs} |-> ContentCard]

\* the natural key of a link: its text and its normalized URL
NaturalKey(link) == <<link.text, AbsoluteUrl(link.href, SourceUrl).url>>

KeyFrame == UNCHANGED <<file0, last, sched, weekday, RunVars, fetch, procs, hello>>

InitKey ==
    /\ sc \in [phase : {"start"}, a : KeyLinks, b : KeyLinks,
                first : {<<>>}, second : {<<>>}]
    /\ file = File("missing", <<>>) /\ file0 = file
    /\ last = NoLast /\ sched = NoSched /\ weekday = MONDAY
    /\ RunIdle /\ fetch = NoFetch /\ procs = NoProcs /\ hello = NoHello

\* the first link goes through the link loop; its article, when there is
\* one, is analysed and marked as processed
KeyFirst ==
    /\ sc.phase = "start"
    /\ LET outcome == LinkOutcome(sc.a, "S", SourceUrl, file, TRUE, KeyWeb) IN
        /\ sc' = [sc EXCEPT !.phase = "first", !.first = outcome]
        /\ file' = IF outcome.kind = "article"
                       THEN save_processed_article(file, outcome.article.hash_id, TRUE,
                                "ok", <<outcome.article.hash_id>>)
                    ELSE file
    /\ KeyFrame

\* the second link goes through the link loop
KeySecond ==
    /\ sc.phase = "first"
    /\ sc' = [sc EXCEPT !.phase = "second",
                         !.second = LinkOutcome(sc.b, "S", SourceUrl, file, TRUE, KeyWeb)]
    /\ UNCHANGED file
    /\ KeyFrame

NextKey == KeyFirst \/ KeySecond

SpecKey == InitKey /\ [][NextKey]_vars

----------------------------------------------------------------------------
(* hello_world_teams.py: one execution of the script *)

\* what the environment holds for TEAMS_WEBHOOK_URL: nothing, or a text
EnvUnset == [set |-> FALSE, value |-> <<>>]
EnvSet(value) == [set |-> TRUE, value |-> value]

\* the values drawn: unset, empty, two URLs and a text without a scheme
HelloEnvs ==
    {EnvUnset, EnvSet(<<>>),
     EnvSet(<<"h", "t", "t", "p", "s", ":", "/", "/", "t">>),
     EnvSet(<<"h", "t", "t", "p", ":", "/", "/", "t">>),
     EnvSet(<<"t">>)}

\* os.getenv: None for a variable that is not set
getenv(env) == IF env.set THEN [none |-> FALSE, s |-> env.value]
               ELSE [none |-> TRUE, s |-> <<>>]

\* `not webhook_url`: true of None and of the empty text
NotTruthy(v) == v.none \/ v.s = <<>>

\* the status codes a webhook answers with
HelloStatusCodes ==
    {200, 201, 202, 204, 301, 302, 400, 401, 403, 404, 405, 408, 413, 429,
     500, 502, 503, 504}

\* the subclasses of RequestException requests.post raises with a usable URL
HelloTransportErrors == {"ConnectionError", "Timeout", "SSLError", "TooManyRedirects"}

\* a URL without a scheme is rejected before anything is sent
HasScheme(url) ==
    StartsWith(url, <<"h", "t", "t", "p", ":", "/", "/">>)
        \/ StartsWith(url, <<"h", "t", "t", "p", "s", ":", "/", "/">>)

\* if response.status_code in [200, 202] (the mutant accepts 200 alone)
HelloSuccess_only_200(status) == status = 200

HelloSuccess(status) == status \in {200, 202}

HelloFrame ==
    UNCHANGED <<file, file0, last, sched, sc, weekday, RunVars, fetch, procs>>

InitHello ==
    /\ hello \in [pc : {"start"}, env : HelloEnvs, requests : {0}, status : {0},
                   raised : {""}, returned : {""}, exit : {-1}]
    /\ file = File("missing", <<>>) /\ file0 = file
    /\ last = NoLast /\ sched = NoSched /\ sc = NoScrape /\ weekday = MONDAY
    /\ RunIdle /\ fetch = NoFetch /\ procs = NoProcs

\* send_hello_world_message up to the request: without a webhook URL it
\* returns False
HelloCheck ==
    /\ hello.pc = "start"
    /\ hello' = IF NotTruthy(getenv(hello.env))
                    THEN [hello EXCEPT !.pc = "returned", !.returned = "False"]
                 ELSE [hello EXCEPT !.pc = "post"]
    /\ HelloFrame

\* requests.post answers with a status
HelloPostAnswered ==
    /\ hello.pc = "post" /\ HasScheme(getenv(hello.env).s)
    /\ \E status \in HelloStatusCodes :
        hello' = [hello EXCEPT !.pc = "returned", !.requests = 1, !.status = status,
                               !.returned = IF HelloSuccess(status) THEN "True"
                                            ELSE "False"]
    /\ HelloFrame

\* requests.post raises a RequestException: before the request for a URL
\* without a scheme, in the course of the request otherwise
HelloPostRaises ==
    /\ hello.pc = "post"
    /\ \E exc \in HelloTransportErrors \cup {"MissingSchema"} :
        /\ (exc = "MissingSchema") <=> ~HasScheme(getenv(hello.env).s)
        /\ hello' = [hello EXCEPT !.pc = "returned",
                                   !.requests = IF exc = "MissingSchema" THEN 0 ELSE 1,
                                   !.raised = exc, !.returned = "False"]
    /\ HelloFrame

\* __main__: exit(1) unless the function returned True
HelloMain ==
    /\ hello.pc = "returned"
    /\ hello' = [hello EXCEPT !.pc = "exited",
                               !.exit = IF hello.returned = "True" THEN 0 ELSE 1]
    /\ HelloFrame

NextHello == HelloCheck \/ HelloPostAnswered \/ HelloPostRaises \/ HelloMain

SpecHello == InitHello /\ [][NextHello]_vars

----------------------------------------------------------------------------
(* The daily run: run_daily_analysis *)

\* the source catalog of __init__, in its insertion order
target_sources ==
    <<
      [name |-> "PYMNTS", frequency |-> "daily",
       url |-> <<"h", "t", "t", "p", "s", ":", "/", "/", "w", "w", "w", ".", "p",
               "y", "m", "n", "t", "s", ".", "c", "o", "m", "/">>],
      [name |-> "Finextra", frequency |-> "daily",
       url |-> <<"h", "t", "t", "p", "s", ":", "/", "/", "w", "w", "w", ".", "f",
               "i", "n", "e", "x", "t", "r", "a", ".", "c", "o", "m", "/">>],
      [name |-> "Payments Journal", frequency |-> "daily",
       url |-> <<"h", "t", "t", "p", "s", ":", "/", "/", "w", "w", "w", ".", "p",
               "a", "y", "m", "e", "n", "t", "s", "j", "o", "u", "r", "n", "a", "l",
               ".", "c", "o", "m", "/">>],
      [name |-> "Fintech Brain Food", frequency |-> "weekly",
       url |-> <<"h", "t", "t", "p", "s", ":", "/", "/", "w", "w", "w", ".", "f",
               "i", "n", "t", "e", "c", "h", "b", "r", "a", "i", "n", "f", "o", "o",
               "d", ".", "c", "o", "m", "/">>],
      [name |-> "Fintech Magazine", frequency |-> "daily",
       url |-> <<"h", "t", "t", "p", "s", ":", "/", "/", "f", "i", "n", "t", "e",
               "c", "h", "m", "a", "g", "a", "z", "i", "n", "e", ".", "c", "o", "m",
               "/", "a", "r", "t", "i", "c", "l", "e", "s">>]
    >>

\* business_impact_score as the response gave it: an int, or a value of
\* another JSON type (a string such as "4"), which the dataclass accepts
IntScore(n) == [type |-> "int", v |-> n]
StrScore == [type |-> "str", v |-> 0]

\* what analyze_article_with_ai returns: [ok, analysis]. outcome is
\*   ok           status 200, a JSON object with every key, an int score
\*   bad_score    status 200, a JSON object with every key, a score that is no int
\*   unparseable  status 200, a text that is no JSON or lacks a key
\*   non200       another status: the function falls off its end
\*   exception    the request raised
AnalysisOutcomes == {"ok", "bad_score", "unparseable", "non200", "exception"}

analyze_article_with_ai(article, outcome, score) ==
    IF outcome \in {"ok", "bad_score"}
        THEN [ok |-> TRUE,
              analysis |-> [title |-> article.title, url |-> article.url,
                            source |-> article.source,
                            business_impact_score |->
                                IF outcome = "ok" THEN IntScore(score) ELSE StrScore]]
    ELSE [ok |-> FALSE, analysis |-> <<>>]

\* whether run_daily_analysis calls save_processed_article for the article
MarksProcessed_always(result) == TRUE

MarksProcessed(result) == result.ok

\* list.sort(key=score, reverse=True) compares scores: a TypeError when an
\* int meets a value of another type
SortRaises(analyses) ==
    \E i, j \in 1..Len(analyses) :
        analyses[i].business_impact_score.type # analyses[j].business_impact_score.type

\* a sort by descending score that is not stable: x goes in front of the
\* elements of equal score
RECURSIVE InsertByScore_ties_first(_, _)
InsertByScore_ties_first(sorted, x) ==
    IF sorted = <<>> THEN <<x>>
    ELSE IF Head(sorted).business_impact_score.v > x.business_impact_score.v
        THEN <<Head(sorted)>> \o InsertByScore_ties_first(Tail(sorted), x)
    ELSE <<x>> \o sorted

\* the stable sort by descending score: x goes behind every element whose
\* score is not smaller
RECURSIVE InsertByScore(_, _)
InsertByScore(sorted, x) ==
    IF sorted = <<>> THEN <<x>>
    ELSE IF Head(sorted).business_impact_score.v >= x.business_impact_score.v
        THEN <<Head(sorted)>> \o InsertByScore(Tail(sorted), x)
    ELSE <<x>> \o sorted

RECURSIVE SortByScore(_)
SortByScore(analyses) ==
    IF analyses = <<>> THEN <<>>
    ELSE InsertByScore(SortByScore(SubSeq(analyses, 1, Len(analyses) - 1)),
                       analyses[Len(analyses)])

\* the brief card shows this many analyses
BriefItems == 3

FirstN(seq, n) == SubSeq(seq, 1, IF Len(seq) < n THEN Len(seq) ELSE n)

\* "⭐" * business_impact_score raises a TypeError unless the score is an int
StarsRaise(analyses) ==
    \E i \in 1..Len(analyses) : analyses[i].business_impact_score.type # "int"

ItemBlock(analysis) ==
    [title |-> analysis.title, source |-> analysis.source,
     stars |-> analysis.business_impact_score.v, url |-> analysis.url]

\* create_teams_message: [raises, message]
create_teams_message(analyses) ==
    IF analyses = <<>>
        THEN [raises |-> FALSE,
              message |-> [kind |-> "card_no_items", count |-> 0, items |-> <<>>]]
    ELSE IF StarsRaise(FirstN(analyses, BriefItems))
        THEN [raises |-> TRUE, message |-> <<>>]
    ELSE [raises |-> FALSE,
          message |-> [kind |-> "card", count |-> Len(analyses),
                       items |-> [i \in 1..Len(FirstN(analyses, BriefItems)) |->
                                     ItemBlock(analyses[i])]]]

\* create_detailed_teams_message: [raises, message]
create_detailed_teams_message(analyses) ==
    IF analyses = <<>>
        THEN [raises |-> FALSE,
              message |-> [kind |-> "detailed_no_items", count |-> 0, items |-> <<>>]]
    ELSE IF StarsRaise(analyses)
        THEN [raises |-> TRUE, message |-> <<>>]
    ELSE [raises |-> FALSE,
          message |-> [kind |-> "detailed", count |-> Len(analyses),
                       items |-> [i \in 1..Len(analyses) |-> ItemBlock(analyses[i])]]]

\* the message run_daily_analysis builds itself when there is no analysis
no_news_message == [kind |-> "text_no_news", count |-> 0, items |-> <<>>]

\* how a post to a webhook can end
PostOutcomes == {"200", "202", "500", "exception"}

\* send_to_teams, send_detailed_to_teams: True for status 200 or 202
Delivered(outcome) == outcome \in {"200", "202"}

Post(channel, message, outcome) ==
    [channel |-> channel, message |-> message, ok |-> Delivered(outcome)]

\* most articles one run collects (the pages drawn hold no more)
MaxRunArticles == 2

\* the scores drawn: the ends of the scale the prompt asks for
RunScores == {1, 5}

RunWeekdays == {MONDAY, 3}
RunFiles == {File("missing", <<>>), File("ok", <<create_article_hash(TitleVisa, HrefAbsA)>>)}
RunConfigs == [claude_api_key : BOOLEAN, teams_webhook_url : BOOLEAN,
               teams_detailed_webhook_url : BOOLEAN]

\* the pages drawn for a source: the model lets the last source of the
\* catalog publish links and gives the sources before it an empty page
RunPages(i) == IF i = Len(target_sources) THEN Pages ELSE {<<>>}

Init ==
    /\ file \in RunFiles /\ file0 = file
    /\ weekday \in RunWeekdays
    /\ config \in RunConfigs
    /\ pc = "sources" /\ src_idx = 1
    /\ all_articles = <<>> /\ art_idx = 1 /\ all_analyses = <<>>
    /\ outcomes = <<>> /\ outbox = <<>> /\ net = {}
    /\ last = NoLast /\ sched = NoSched /\ sc = NoScrape
    /\ fetch = NoFetch /\ procs = NoProcs /\ hello = NoHello

\* the source loop ends: on to the analysis loop
AfterSource ==
    /\ src_idx' = src_idx + 1
    /\ pc' = IF src_idx = Len(target_sources) THEN "analyze" ELSE "sources"

\* a source that is not due today is skipped
SkipSource ==
    /\ pc = "sources"
    /\ ~should_check_source_today(target_sources[src_idx].name,
                                  target_sources[src_idx], weekday)
    /\ AfterSource
    /\ UNCHANGED <<file, last, sched, sc, file0, fetch, procs, hello, weekday, all_articles, art_idx,
                   all_analyses, outbox, config, outcomes, net>>

\* a due source is scraped and its articles join all_articles
ScrapeSource ==
    /\ pc = "sources"
    /\ should_check_source_today(target_sources[src_idx].name,
                                 target_sources[src_idx], weekday)
    /\ \E page \in RunPages(src_idx), page_ok \in BOOLEAN, read_ok \in BOOLEAN,
          web \in WebsOf(target_sources[src_idx].url) :
        LET articles == scrape_articles_from_source(
                target_sources[src_idx].name, target_sources[src_idx].url,
                DefaultMaxArticles, page_ok, page, file, read_ok, web)
        IN /\ Len(all_articles) + Len(articles) <= MaxRunArticles
           /\ all_articles' = all_articles \o articles
           /\ net' = net \cup {"source"} \cup
                        (IF FetchesContent(target_sources[src_idx].name,
                                target_sources[src_idx].url, DefaultMaxArticles,
                                page_ok, page, file, read_ok, web)
                         THEN {"article"} ELSE {})
    /\ AfterSource
    /\ UNCHANGED <<file, last, sched, sc, file0, fetch, procs, hello, weekday, art_idx, all_analyses, outbox,
                   config, outcomes>>

\* the analysis loop ends: on to the sort
AfterArticle ==
    /\ art_idx' = art_idx + 1
    /\ UNCHANGED pc

\* one pass of the analysis loop: the article is analysed and, when an
\* analysis came back, appended and marked as processed
AnalyzeArticle ==
    /\ pc = "analyze" /\ art_idx <= Len(all_articles)
    /\ \E outcome \in AnalysisOutcomes, score \in RunScores :
        LET article == all_articles[art_idx]
            result == analyze_article_with_ai(article, outcome, score)
        IN /\ (outcome # "ok") => score = 1
           /\ config.claude_api_key \/ outcome \in {"non200", "exception"}
           /\ net' = net \cup {"ai"}
           /\ outcomes' = Append(outcomes, outcome)
           /\ all_analyses' =
                 IF result.ok THEN Append(all_analyses, result.analysis)
                 ELSE all_analyses
           /\ IF MarksProcessed(result)
                 THEN \E read_ok \in BOOLEAN, w \in WriteOutcomes :
                        \E listing \in ListsOf(ProcessedPlus(file, read_ok, article.hash_id)) :
                          file' = save_processed_article(file, article.hash_id,
                                                         read_ok, w, listing)
                 ELSE file' = file
    /\ AfterArticle
    /\ UNCHANGED <<last, sched, sc, file0, fetch, procs, hello, weekday, src_idx, all_articles, outbox, config>>

\* all_analyses.sort(...): the exception it may raise is caught nowhere
SortAnalyses ==
    /\ pc = "analyze" /\ art_idx > Len(all_articles)
    /\ IF SortRaises(all_analyses)
          THEN pc' = "aborted" /\ UNCHANGED all_analyses
          ELSE pc' = "publish" /\ all_analyses' = SortByScore(all_analyses)
    /\ UNCHANGED <<file, last, sched, sc, file0, fetch, procs, hello, weekday, src_idx, all_articles, art_idx,
                   outbox, config, outcomes, net>>

\* the posts of the branch `if all_analyses`: the brief card, then the
\* detailed card when its webhook is configured
DigestPosts(main, detailed) ==
    <<Post("main", create_teams_message(all_analyses).message, main)>>
        \o (IF config.teams_detailed_webhook_url
                /\ ~create_detailed_teams_message(all_analyses).raises
            THEN <<Post("detailed",
                        create_detailed_teams_message(all_analyses).message, detailed)>>
            ELSE <<>>)

\* requests.post(None, ...) raises before anything is sent: a post issues a
\* request only when its webhook URL is set
WebhookRequests(posts) ==
    IF \E i \in 1..Len(posts) :
           \/ posts[i].channel = "main" /\ config.teams_webhook_url
           \/ posts[i].channel = "detailed" /\ config.teams_detailed_webhook_url
    THEN {"webhook"} ELSE {}

\* there are analyses: the digest is built and sent
PublishDigest ==
    /\ pc = "publish" /\ all_analyses # <<>>
    /\ IF create_teams_message(all_analyses).raises
          THEN pc' = "aborted" /\ UNCHANGED <<outbox, net>>
          ELSE \E main \in PostOutcomes, detailed \in PostOutcomes :
                /\ config.teams_webhook_url \/ main = "exception"
                /\ config.teams_detailed_webhook_url \/ detailed = "exception"
                /\ outbox' = outbox \o DigestPosts(main, detailed)
                /\ net' = net \cup WebhookRequests(DigestPosts(main, detailed))
                /\ pc' = IF config.teams_detailed_webhook_url
                            /\ create_detailed_teams_message(all_analyses).raises
                         THEN "aborted" ELSE "done"
    /\ UNCHANGED <<file, last, sched, sc, file0, fetch, procs, hello, weekday, src_idx, all_articles, art_idx,
                   all_analyses, config, outcomes>>

\* there is no analysis: the "no news" message is sent
PublishNoNews ==
    /\ pc = "publish" /\ all_analyses = <<>>
    /\ \E main \in PostOutcomes :
        /\ config.teams_webhook_url \/ main = "exception"
        /\ outbox' = Append(outbox, Post("main", no_news_message, main))
        /\ net' = net \cup WebhookRequests(<<Post("main", no_news_message, main)>>)
    /\ pc' = "done"
    /\ UNCHANGED <<file, last, sched, sc, file0, fetch, procs, hello, weekday, src_idx, all_articles, art_idx,
                   all_analyses, config, outcomes>>

Next ==
    \/ SkipSource
    \/ ScrapeSource
    \/ AnalyzeArticle
    \/ SortAnalyses
    \/ PublishDigest
    \/ PublishNoNews

Spec == Init /\ [][Next]_vars

----------------------------------------------------------------------------
(* The end of a run on its own: the sort and the publication of the
   analyses the analysis loop collected *)

\* most analyses the analysis loop hands to the sort
MaxAnalyses == 4

\* the scores drawn: two int scores and a score of another type
DigestScores == {IntScore(1), IntScore(2), StrScore}

\* the i-th article the source loop collected
DigestArticle(i) ==
    LET digit == <<"1", "2", "3", "4", "5", "6", "7", "8", "9">>[i]
        title == TitleVisa \o <<" ", digit>>
        url == HrefAbsA \o <<digit>>
    IN [title |-> title, url |-> url, content |-> ContentCard,
        source |-> target_sources[Len(target_sources)].name,
        hash_id |-> create_article_hash(title, url)]

\* the analysis of the i-th article, with the score the response carried
DigestAnalysis(i, score) ==
    analyze_article_with_ai(DigestArticle(i),
                            IF score.type = "int" THEN "ok" ELSE "bad_score",
                            score.v).analysis

\* the state in which run_daily_analysis leaves its analysis loop when every
\* article was analysed and saved
InitDigest ==
    /\ \E n \in 0..MaxAnalyses : \E scores \in [1..n -> DigestScores] :
        /\ all_articles = [i \in 1..n |-> DigestArticle(i)]
        /\ all_analyses = [i \in 1..n |-> DigestAnalysis(i, scores[i])]
        /\ outcomes = [i \in 1..n |->
                          IF scores[i].type = "int" THEN "ok" ELSE "bad_score"]
        /\ art_idx = n + 1
        /\ file = IF n = 0 THEN File("missing", <<>>)
                  ELSE File("ok", [i \in 1..n |-> DigestArticle(i).hash_id])
        /\ net = IF n = 0 THEN {"source"} ELSE {"source", "article", "ai"}
    /\ file0 = file
    /\ weekday = MONDAY
    /\ config \in {c \in RunConfigs : c.claude_api_key /\ c.teams_webhook_url}
    /\ pc = "analyze" /\ src_idx = Len(target_sources) + 1
    /\ outbox = <<>>
    /\ last = NoLast /\ sched = NoSched /\ sc = NoScrape
    /\ fetch = NoFetch /\ procs = NoProcs /\ hello = NoHello

NextDigest == SortAnalyses \/ PublishDigest \/ PublishNoNews

SpecDigest == InitDigest /\ [][NextDigest]_vars

----------------------------------------------------------------------------
(* Claims about the state file *)

\* C3: the persisted seen set never shrinks: after every load and every save,
\* failed reads and writes included, it is a superset of what it was before
C3_SeenSetNeverShrinks == [][Seen(file) \subseteq Seen(file')]_vars

\* C4: a save whose write fails leaves the previously persisted state intact:
\* a following load returns at least the set persisted before the call
C4_FailedWriteKeepsPriorState ==
    [][(last'.op = "save" /\ last'.w # "ok") => Seen(file) \subseteq Seen(file')]_vars

\* C5: load_processed_articles returns the empty set and raises nothing
\* whenever the state file is missing, unreadable, truncated, no JSON, or
\* JSON of another shape than an object listing the hashes
C5_LoadFailsSoft ==
    (last.op = "load" /\ (last.before.shape # "ok" \/ ~last.read_ok))
        => (last.value = {} /\ ~last.raised)

\* C12: after a save_processed_article(h) that met no I/O error, a load
\* returns exactly the set persisted before plus h, in whatever order the
\* hashes were listed in the file
C12_SaveThenLoadRoundTrip ==
    (last.op = "save" /\ last.read_ok /\ last.w = "ok")
        => Seen(file) = Seen(last.before) \cup {last.arg}

\* a save into a file of one hash that listed the new hash first
C12_Witness ==
    /\ last.op = "save" /\ last.read_ok /\ last.w = "ok"
    /\ Seen(last.before) # {} /\ last.arg \notin Seen(last.before)
    /\ file.shape = "ok" /\ file.items[1] = last.arg
    /\ Cardinality(Seen(file)) = 2

\* C13: a save_processed_article whose write failed lets its caller see the
\* failure: it raises, or it returns something else than a save that worked
C13_WriteFailureSurfaced ==
    (last.op = "save" /\ last.w # "ok") => SaveResult(last.w) # SaveResult("ok")

----------------------------------------------------------------------------
(* Claims about the scheduler *)

\* C8: a daily source is due on all seven weekdays, a weekly source exactly
\* on weekday 0 (Monday), a source of any other frequency on every day
C8_SchedulerTable ==
    sched.phase = "answered" =>
        /\ sched.frequency = "daily" => sched.due
        /\ sched.frequency = "weekly" => (sched.due <=> weekday = 0)
        /\ sched.frequency \notin {"daily", "weekly"} => sched.due

C8_Witness ==
    /\ sched.phase = "answered" /\ sched.frequency = "weekly"
    /\ weekday = 0 /\ sched.due

----------------------------------------------------------------------------
(* Claims about the scraper *)

\* the candidates of the first call: the links the selector loop extracted
Candidates == CollectLinks(sc.page, 1, sc.cap, <<>>)

\* a candidate the first call does not skip: a good URL, not seen, with
\* content, relevant
ValidNew(link) ==
    LinkOutcome(link, "S", SourceUrl, file0, sc.read1, sc.web).kind = "article"

ArticleOf(link) ==
    LinkOutcome(link, "S", SourceUrl, file0, sc.read1, sc.web).article

HashesOf(articles) == {articles[i].hash_id : i \in 1..Len(articles)}

\* the first call has just returned
FirstReturned == sc.phase = "enrich" /\ sc.k = 1

\* the second call has returned, having loaded a state that holds the first
\* run's seen set and the fingerprint of every article the first run returned
SecondAfterFullSave ==
    /\ sc.phase = "done" /\ sc.read2
    /\ Seen(file0) \cup HashesOf(sc.first) \subseteq Seen(file)

C6_ResultDeduplicated ==
    \A i, j \in 1..Len(sc.first) :
        sc.first[i].hash_id = sc.first[j].hash_id => i = j

\* C7: a call returns at most max_articles articles; when at least
\* max_articles of the candidates (the link occurrences the selector loop
\* extracted, in its order) are valid and new it returns exactly the first
\* max_articles of them in extraction order, the skipped candidates (seen,
\* bad URL, no content, not relevant) not counting toward the cap
C7_CapEnforced ==
    FirstReturned =>
        LET valid == SelectSeq(Candidates, ValidNew) IN
        /\ Len(sc.first) <= sc.cap
        /\ (sc.page_ok /\ Len(valid) >= sc.cap) =>
              sc.first = [i \in 1..sc.cap |-> ArticleOf(valid[i])]

C7_Witness ==
    /\ FirstReturned /\ sc.page_ok
    /\ Len(SelectSeq(Candidates, ValidNew)) > sc.cap
    /\ ~ValidNew(Candidates[1])
    /\ Len(sc.first) = sc.cap

\* a candidate that is valid and relevant, seen or not
FreshValid(link) ==
    LinkOutcome(link, "S", SourceUrl, File("missing", <<>>), TRUE, sc.web).kind = "article"

\* the valid, relevant candidates of the page, in extraction order
ValidCandidates == SelectSeq(Candidates, FreshValid)

FingerprintOf(link) ==
    LinkOutcome(link, "S", SourceUrl, File("missing", <<>>), TRUE, sc.web).article.hash_id

Unseen(link) == FingerprintOf(link) \notin Seen(file0)

\* C11: of the n valid, relevant candidates of a page, k of them seen and
\* n - k within the cap, the call returns exactly the n - k unseen ones; once
\* each was enriched and saved (the file read and written without error), the
\* reloaded seen set holds all n fingerprints
C11_EndToEnd ==
    LET unseen == SelectSeq(ValidCandidates, Unseen) IN
    (sc.phase = "enrich" /\ sc.page_ok /\ sc.read1 /\ Len(unseen) <= sc.cap) =>
        /\ sc.first = [i \in 1..Len(unseen) |-> ArticleOf(unseen[i])]
        /\ (sc.k > Len(sc.first) /\ sc.all_saved) =>
              {FingerprintOf(ValidCandidates[i]) : i \in 1..Len(ValidCandidates)}
                  \subseteq Seen(file)

\* two valid candidates, one of them seen: the other is returned and saved
C11_Witness ==
    /\ sc.phase = "enrich" /\ sc.page_ok /\ sc.read1 /\ sc.all_saved
    /\ Len(ValidCandidates) = 2
    /\ Len(SelectSeq(ValidCandidates, Unseen)) = 1
    /\ Len(sc.first) = 1 /\ sc.k = 2
    /\ Cardinality(Seen(file)) = 2

\* the articles the two calls returned
Returned == {sc.first[i] : i \in 1..Len(sc.first)} \cup {sc.second[i] : i \in 1..Len(sc.second)}

ValidHashes == {FingerprintOf(ValidCandidates[i]) : i \in 1..Len(ValidCandidates)}

\* C19: run after run over an unchanged page, with a state file that can be
\* read and written, every valid, relevant candidate that is unseen when a
\* run starts is returned by that run or a later one, however often the
\* analysis of the candidates ahead of it fails
C19_EveryCandidateEventuallyReturned ==
    \A h \in PageHashes :
        (sc.phase = "start" /\ h \in ValidHashes /\ h \notin Seen(file))
            ~> (sc.phase = "enrich" /\ h \in HashesOf(sc.first))

----------------------------------------------------------------------------
(* Claims about the daily run *)

\* the fingerprints this run added to the persisted seen set
PersistedByRun == Seen(file) \ Seen(file0)

\* the fingerprints of the articles shown in a message that was delivered
DeliveredHashes ==
    UNION {{create_article_hash(outbox[p].message.items[i].title,
                                outbox[p].message.items[i].url) :
                i \in 1..Len(outbox[p].message.items)} :
           p \in {q \in 1..Len(outbox) : outbox[q].ok}}

\* C1: a fingerprint is persisted only after the digest that shows the article
\* was successfully sent, so in every state of a run the fingerprints the run
\* has added to the state file belong to articles of a delivered message
C1_PersistedOnlyAfterPublication == PersistedByRun \subseteq DeliveredHashes

\* C9: no failure in one source or one article aborts run_daily_analysis, a
\* malformed enrichment response included: the run never ends in an uncaught
\* exception
C9_RunNeverAborts == pc # "aborted"

FailedOutcomes == {"unparseable", "non200", "exception"}

\* C10: the pass of the analysis loop over an article whose analysis failed
\* (unparseable response, non-200 response, exception) leaves all_analyses
\* and the state file as they were
C10_FailedAnalysisLeavesNoTrace ==
    [][(pc = "analyze" /\ Len(outcomes') = Len(outcomes) + 1
            /\ outcomes'[Len(outcomes')] \in FailedOutcomes)
        => (file' = file /\ all_analyses' = all_analyses)]_vars

\* a finished run in which the analysis of an article failed and the article
\* is still unseen, next to an article that was analysed and saved
C10_Witness ==
    /\ pc = "done"
    /\ \E i \in 1..Len(outcomes) :
        /\ outcomes[i] \in FailedOutcomes
        /\ all_articles[i].hash_id \notin Seen(file)
        /\ \A p \in 1..Len(outbox) : \A k \in 1..Len(outbox[p].message.items) :
              outbox[p].message.items[k].url # all_articles[i].url
    /\ \E j \in 1..Len(outcomes) :
        outcomes[j] = "ok" /\ all_articles[j].hash_id \in Seen(file)

\* a required setting is missing from the environment
ConfigMissing == ~config.claude_api_key \/ ~config.teams_webhook_url

\* C14: with CLAUDE_API_KEY or TEAMS_WEBHOOK_URL missing, the run fails with a
\* configuration error before any network request is issued
C14_ConfigFailFast == ConfigMissing => (net = {} /\ pc \in {"sources", "config_error"})

\* the exit status of the process: an uncaught exception ends it with 1
ExitCode == IF pc = "aborted" THEN 1 ELSE 0

\* the run has ended, by returning or by an uncaught exception
Ended == pc \in {"done", "aborted"}

\* C15: the process exits non-zero only when the run completed no useful
\* work; when the analysis of some article succeeded, a digest is sent and
\* the process exits zero
C15_BestEffortExit ==
    (Ended /\ \E i \in 1..Len(outcomes) : outcomes[i] = "ok")
        => (ExitCode = 0 /\ \E p \in 1..Len(outbox) : outbox[p].channel = "main")

\* the kinds of message that are a card with a body
CardKinds == {"card", "card_no_items"}

\* C17: every message sent to the main webhook is a card with a non-empty
\* body: the "no items" card when there is no analysis, the card of
\* create_teams_message when there are some
C17_MainMessageIsCard ==
    \A p \in 1..Len(outbox) :
        outbox[p].channel = "main" =>
            /\ outbox[p].message.kind \in CardKinds
            /\ outbox[p].message.kind = "card_no_items" <=> all_analyses = <<>>

----------------------------------------------------------------------------
(* Claims about the order and the size of the digest *)

\* the sort has run and raised nothing
Sorted == pc \in {"publish", "done"}

\* where the article of an analysis stands in all_articles
IngestionIndex(analysis) ==
    CHOOSE k \in 1..Len(all_articles) :
        /\ all_articles[k].title = analysis.title /\ all_articles[k].url = analysis.url
        /\ \A m \in 1..(k - 1) :
              ~(all_articles[m].title = analysis.title
                    /\ all_articles[m].url = analysis.url)

\* after is before in non-increasing order of score, the elements of equal
\* score in the order they have in before
StableByScore(after, before) ==
    /\ Len(after) = Len(before)
    /\ \E f \in [1..Len(before) -> 1..Len(before)] :
        /\ \A i, j \in 1..Len(before) : i # j => f[i] # f[j]
        /\ \A i \in 1..Len(before) : after[i] = before[f[i]]
        /\ \A i, j \in 1..Len(before) :
              i < j =>
                /\ after[i].business_impact_score.v >= after[j].business_impact_score.v
                /\ (after[i].business_impact_score.v = after[j].business_impact_score.v)
                    => f[i] < f[j]

\* the item blocks of the first n analyses
BlocksOf(n) == [i \in 1..n |-> ItemBlock(all_analyses[i])]

\* C21: the sort of run_daily_analysis leaves all_analyses in non-increasing
\* order of business_impact_score with equal scores in ingestion order, and
\* nothing reorders it afterwards; the brief card carries the item blocks of
\* the first 3 analyses of that order (of all when there are fewer), the
\* detailed card those of all analyses
C21_ScoreOrderAndDigest ==
    /\ [][/\ ((pc = "analyze" /\ pc' = "publish")
                => StableByScore(all_analyses', all_analyses))
           /\ (Sorted => all_analyses' = all_analyses)]_vars
    /\ [](\A p \in 1..Len(outbox) :
              /\ outbox[p].message.kind = "card" =>
                    /\ Len(outbox[p].message.items) <= 3
                    /\ outbox[p].message.items
                          = BlocksOf(IF Len(all_analyses) < 3 THEN Len(all_analyses) ELSE 3)
              /\ outbox[p].message.kind = "detailed" =>
                    outbox[p].message.items = BlocksOf(Len(all_analyses)))

\* a finished run with four analyses that the sort had to reorder and that
\* hold a tie: the brief card shows three of them, the detailed card all four
C21_Witness ==
    /\ pc = "done" /\ Len(all_analyses) = 4
    /\ IngestionIndex(all_analyses[1]) # 1
    /\ \E i, j \in 1..4 :
          /\ i < j
          /\ all_analyses[i].business_impact_score = all_analyses[j].business_impact_score
    /\ \E p, q \in 1..Len(outbox) :
          /\ outbox[p].message.kind = "card" /\ Len(outbox[p].message.items) = 3
          /\ outbox[p].message.count = 4
          /\ outbox[q].message.kind = "detailed" /\ Len(outbox[q].message.items) = 4

----------------------------------------------------------------------------
(* Claims about the retrieval of an article's content *)

\* what the link loop does with the link once the content came back
FetchedOutcome ==
    LinkOutcome(fetch.link, "S", SourceUrl, File("missing", <<>>), TRUE,
                [u \in {AbsoluteUrl(fetch.link.href, SourceUrl).url} |-> fetch.content])

\* C16: scrape_article_content_with_retry makes at most max_retries requests
\* and always returns; when its last attempt failed it returns the empty
\* text, and the link loop skips the article for lack of content
C16_BoundedRetries ==
    /\ [](fetch.requests <= fetch.max_retries)
    /\ []((fetch.phase = "returned" /\ fetch.failed) =>
            (fetch.content = <<>> /\ FetchedOutcome.kind = "no_content"))
    /\ <>(fetch.phase = "returned")

\* the default budget used up: three requests, all failed, nothing returned
C16_Witness ==
    /\ fetch.phase = "returned" /\ fetch.max_retries = 3 /\ fetch.requests = 3
    /\ fetch.failed /\ fetch.content = <<>> /\ fetch.body # <<>>

----------------------------------------------------------------------------
(* Claims about the natural key *)

\* C22: the text create_article_hash digests determines the natural key: two
\* links that both reach the fingerprint and differ in title or normalized
\* URL have different digested texts, and the second is not skipped as
\* already processed because of the first
C22_KeyEncodingInjective ==
    (/\ sc.phase = "second"
     /\ sc.first.kind = "article"
     /\ sc.second.kind \in {"article", "seen"}
     /\ NaturalKey(sc.a) # NaturalKey(sc.b))
        => /\ HashContent(NaturalKey(sc.a)[1], NaturalKey(sc.a)[2])
                # HashContent(NaturalKey(sc.b)[1], NaturalKey(sc.b)[2])
           /\ sc.second.kind = "article"

----------------------------------------------------------------------------
(* Claims about the hello-world script *)

\* the request raised, or the webhook answered with a status other than 200
\* and 202
HelloRequestFailed ==
    hello.raised # "" \/ (hello.requests = 1 /\ hello.status \notin {200, 202})

\* C23: the script exits with status 1 exactly when send_hello_world_message
\* returned False and with 0 when it returned True; the function returns
\* False exactly when TEAMS_WEBHOOK_URL is unset or empty (no request is
\* issued then), the request raises a RequestException, or the webhook
\* answers with a status other than 200 and 202
C23_HelloExitStatus ==
    /\ hello.pc = "exited" =>
          /\ hello.exit = 1 <=> hello.returned = "False"
          /\ hello.exit = 0 <=> hello.returned = "True"
    /\ hello.pc \in {"returned", "exited"} =>
          /\ hello.returned \in {"True", "False"}
          /\ hello.returned = "False" <=>
                ((~hello.env.set \/ hello.env.value = <<>>) \/ HelloRequestFailed)
          /\ (~hello.env.set \/ hello.env.value = <<>>) => hello.requests = 0

\* the variable is set to the empty text: no request, False, exit status 1
C23_Witness ==
    /\ hello.pc = "exited" /\ hello.env = EnvSet(<<>>)
    /\ hello.requests = 0 /\ hello.returned = "False" /\ hello.exit = 1

\* C23 as written: the function returns False exactly when TEAMS_WEBHOOK_URL
\* is unset, the request raises, or the status is other than 200 and 202
C23_AsWritten ==
    /\ hello.pc = "exited" =>
          /\ hello.exit = 1 <=> hello.returned = "False"
          /\ hello.exit = 0 <=> hello.returned = "True"
    /\ hello.pc \in {"returned", "exited"} =>
          /\ hello.returned \in {"True", "False"}
          /\ hello.returned = "False" <=> (~hello.env.set \/ HelloRequestFailed)
          /\ ~hello.env.set => hello.requests = 0

----------------------------------------------------------------------------
(* Claims about overlapping runs *)

\* C20: when the save_processed_article calls of two overlapping runs have
\* both finished, the persisted seen set holds the fingerprint of every call
\* that completed without error; stated for the case that both calls read
\* and wrote the file without error, so that only the interleaving is left
C20_NoLostUpdate ==
    (\A p \in Savers : procs[p].pc = "done" /\ procs[p].ok) =>
        \A p \in Savers : procs[p].hash \in Seen(file)

====
